---- MODULE Spec2Model ----
(***************************************************************************)
(* FastStorage<T, N> (src/FastStorage.h): a sequence container keeping its *)
(* first N elements in an uninitialized in-place array (mInPlace) and the  *)
(* remaining ones in a std::vector (mOutOfPlace).                          *)
(*                                                                         *)
(* The element type T is the one the tests use to observe the container    *)
(* (TestDestructorCalls, MyInt, int): a value carrying an identifier, whose *)
(* copy/move construction and assignment copy the identifier, and whose    *)
(* destructor appends the identifier to a log.  An element is therefore    *)
(* modelled by its identifier; `fired` is what one call appends to the log. *)
(*                                                                         *)
(* std::vector is modelled by its element sequence and its capacity, with  *)
(* the growth policy of libstdc++ (the capacity doubles), because a        *)
(* reallocation destroys the old elements and so shows in the log          *)
(* (src/testStorage.cpp:234, "6 because vector").                          *)
(***************************************************************************)
EXTENDS Integers, Sequences, FiniteSets

\* ------------------------------------------------------------------ bounds
MaxN == 2        \* the inline capacities N explored: 0..MaxN
MaxSize == 4     \* push_back / emplace_back are explored while mSize < MaxSize
MaxVal == 2      \* element identifiers: 1..MaxVal
MaxInit == 2     \* initializer lists of length 0..MaxInit
MaxCopySize == 2 \* the two-object client pushes while mSize < MaxCopySize
MaxOff == 2      \* iterator offsets explored: -MaxOff..MaxOff
SizeBits == 8    \* width of size_t in the model (arithmetic is modulo 2^SizeBits)

SizeMod == 2 ^ SizeBits
Values == 1 .. MaxVal
Objs == {"a", "b"}
\* the value read from in-place memory that was never written
Garbage == 0

VARIABLES
    N,       \* template parameter N: the number of in-place slots
    store,   \* store[o]: the FastStorage object o
    last,    \* the last call: its name, object, arguments, result and destructor firings
    ref,     \* ref[o]: a plain sequence subjected to the same operations as o
    it,      \* the iterator variable i of the erase-while-iterating loop
    loop     \* the loop's position and its bookkeeping

vars == <<N, store, last, ref, it, loop>>

\* ------------------------------------------------------------- size_t
Min(x, y) == IF x < y THEN x ELSE y
\* unsigned arithmetic of size_t
SzAdd(x, y) == (x + y) % SizeMod
SzSub(x, y) == (x - y + SizeMod) % SizeMod
\* a (possibly negative) int argument converted to size_t
ToSizeT(x) == x % SizeMod

\* ------------------------------------------------------------- std::vector
\* A vector is [elems |-> sequence of identifiers, cap |-> capacity].
\* Every operation returns [v |-> the vector after, fired |-> the destructor
\* log it produced, ub |-> whether it was called outside its precondition].
EmptyVec == [elems |-> <<>>, cap |-> 0]

VecLen(v) == Len(v.elems)

\* std::vector::operator[] (0-based); reading past the end is undefined
VecAt(v, j) == IF j < VecLen(v) THEN v.elems[j + 1] ELSE Garbage

\* reserve(n): a reallocation relocates the elements and destroys the old ones
VecReserve(v, n) ==
    IF n > v.cap
    THEN [v |-> [elems |-> v.elems, cap |-> n], fired |-> v.elems, ub |-> FALSE]
    ELSE [v |-> v, fired |-> <<>>, ub |-> FALSE]

\* push_back / emplace_back: grows to size + max(size, 1) when full
VecPushBack(v, x) ==
    IF VecLen(v) = v.cap
    THEN [v |-> [elems |-> Append(v.elems, x),
                 cap |-> VecLen(v) + (IF VecLen(v) > 1 THEN VecLen(v) ELSE 1)],
          fired |-> v.elems, ub |-> FALSE]
    ELSE [v |-> [v EXCEPT !.elems = Append(@, x)], fired |-> <<>>, ub |-> FALSE]

\* pop_back: destroys the last element; undefined on an empty vector
VecPopBack(v) ==
    IF VecLen(v) = 0
    THEN [v |-> v, fired |-> <<>>, ub |-> TRUE]
    ELSE [v |-> [v EXCEPT !.elems = SubSeq(@, 1, Len(@) - 1)],
          fired |-> <<v.elems[VecLen(v)]>>, ub |-> FALSE]

\* erase(begin() + j): move-assigns every later element one place down, then
\* destroys the last element (which still carries its own identifier)
VecErase(v, j) ==
    IF j >= VecLen(v)
    THEN [v |-> v, fired |-> <<>>, ub |-> TRUE]
    ELSE [v |-> [v EXCEPT !.elems = SubSeq(@, 1, j) \o SubSeq(@, j + 2, Len(@))],
          fired |-> <<v.elems[VecLen(v)]>>, ub |-> FALSE]

\* clear(): destroys every element, first to last; the capacity stays
VecClear(v) == [v |-> [v EXCEPT !.elems = <<>>], fired |-> v.elems, ub |-> FALSE]

\* copy assignment v = o
VecAssign(v, o) ==
    IF VecLen(o) > v.cap
    THEN [v |-> [elems |-> o.elems, cap |-> VecLen(o)], fired |-> v.elems, ub |-> FALSE]
    ELSE [v |-> [v EXCEPT !.elems = o.elems],
          fired |-> SubSeq(v.elems, VecLen(o) + 1, VecLen(v)), ub |-> FALSE]


\* ------------------------------------------------------------- FastStorage
\* An in-place slot is [val |-> the identifier its memory holds, live |-> whether
\* an object constructed there (placement new) has not been destroyed since].
\* Assignment to a slot changes val only.  An explicit destructor call ends the
\* object's lifetime: live is cleared and the memory's content is indeterminate
\* again (Garbage) until something is written there.
FreshSlot == [val |-> Garbage, live |-> FALSE]

\* FastStorage() = default: N uninitialized slots, an empty vector, mSize = 0
NewStorage ==
    [alive |-> TRUE,
     mInPlace |-> [i \in 0 .. (N - 1) |-> FreshSlot],
     mOutOfPlace |-> EmptyVec,
     mSize |-> 0]

\* an object that is not (or no longer) constructed
NoStorage == [NewStorage EXCEPT !.alive = FALSE]

getInPlace(s, index) == s.mInPlace[index].val

\* size()
size(s) == s.mSize

\* operator[](index): unchecked; index >= mSize is outside its contract
Subscript(s, index) ==
    IF index < N THEN getInPlace(s, index) ELSE VecAt(s.mOutOfPlace, SzSub(index, N))

\* (mutant) mOutOfPlace.clear() is forgotten
clear_keepsOverflow(s) ==
    LET n == Min(N, s.mSize)
    IN [s |-> [s EXCEPT !.mInPlace = [i \in 0 .. (N - 1) |->
                                        IF i < n THEN FreshSlot ELSE @[i]],
                        !.mSize = 0],
        fired |-> [k \in 1 .. n |-> getInPlace(s, k - 1)],
        ub |-> FALSE]

\* (mutant) the in-place loop runs before mOutOfPlace.clear()
clear_inPlaceFirst(s) ==
    LET c == VecClear(s.mOutOfPlace)
        n == Min(N, s.mSize)
    IN [s |-> [s EXCEPT !.mOutOfPlace = c.v,
                        !.mInPlace = [i \in 0 .. (N - 1) |->
                                        IF i < n THEN FreshSlot ELSE @[i]],
                        !.mSize = 0],
        fired |-> [k \in 1 .. n |-> getInPlace(s, k - 1)] \o c.fired,
        ub |-> c.ub]

\* clear()
clear(s) ==
    LET c == VecClear(s.mOutOfPlace)
        n == Min(N, s.mSize)
    IN [s |-> [s EXCEPT !.mOutOfPlace = c.v,
                        !.mInPlace = [i \in 0 .. (N - 1) |->
                                        IF i < n THEN FreshSlot ELSE @[i]],
                        !.mSize = 0],
        fired |-> c.fired \o [k \in 1 .. n |-> getInPlace(s, k - 1)],
        ub |-> c.ub]

\* (mutant) the in-place test is mSize <= N
push_back_inPlaceAtN(s, value) ==
    IF s.mSize <= N
    THEN [s |-> [s EXCEPT !.mInPlace = [i \in 0 .. (N - 1) |->
                                          IF i = s.mSize
                                          THEN [val |-> value, live |-> TRUE]
                                          ELSE @[i]],
                          !.mSize = SzAdd(@, 1)],
          fired |-> <<>>, ub |-> s.mSize = N]
    ELSE LET p == VecPushBack(s.mOutOfPlace, value)
         IN [s |-> [s EXCEPT !.mOutOfPlace = p.v, !.mSize = SzAdd(@, 1)],
             fired |-> p.fired, ub |-> p.ub]

\* push_back(value)
push_back(s, value) ==
    IF s.mSize < N
    THEN [s |-> [s EXCEPT !.mInPlace[s.mSize] = [val |-> value, live |-> TRUE],
                          !.mSize = SzAdd(@, 1)],
          fired |-> <<>>, ub |-> FALSE]
    ELSE IF s.mSize = N
    THEN LET r == VecReserve(s.mOutOfPlace, N)
             p == VecPushBack(r.v, value)
         IN [s |-> [s EXCEPT !.mOutOfPlace = p.v, !.mSize = SzAdd(@, 1)],
             fired |-> r.fired \o p.fired, ub |-> r.ub \/ p.ub]
    ELSE LET p == VecPushBack(s.mOutOfPlace, value)
         IN [s |-> [s EXCEPT !.mOutOfPlace = p.v, !.mSize = SzAdd(@, 1)],
             fired |-> p.fired, ub |-> p.ub]

\* emplace_back(args...): T is constructed from the forwarded arguments
emplace_back(s, value) ==
    IF s.mSize < N
    THEN [s |-> [s EXCEPT !.mInPlace[s.mSize] = [val |-> value, live |-> TRUE],
                          !.mSize = SzAdd(@, 1)],
          fired |-> <<>>, ub |-> FALSE]
    ELSE IF s.mSize = N
    THEN LET r == VecReserve(s.mOutOfPlace, N)
             p == VecPushBack(r.v, value)
         IN [s |-> [s EXCEPT !.mOutOfPlace = p.v, !.mSize = SzAdd(@, 1)],
             fired |-> r.fired \o p.fired, ub |-> r.ub \/ p.ub]
    ELSE LET p == VecPushBack(s.mOutOfPlace, value)
         IN [s |-> [s EXCEPT !.mOutOfPlace = p.v, !.mSize = SzAdd(@, 1)],
             fired |-> p.fired, ub |-> p.ub]

\* (mutant) no test for an empty container: --mSize wraps around
pop_back_unguarded(s) ==
    LET m == SzSub(s.mSize, 1)
    IN IF m < N
       THEN [s |-> [s EXCEPT !.mSize = m, !.mInPlace[m] = FreshSlot],
             fired |-> <<getInPlace(s, m)>>, ub |-> FALSE]
       ELSE LET p == VecPopBack(s.mOutOfPlace)
            IN [s |-> [s EXCEPT !.mSize = m, !.mOutOfPlace = p.v],
                fired |-> p.fired, ub |-> p.ub]

\* (mutant) the in-place branch forgets the destructor call
pop_back_noDestroy(s) ==
    IF s.mSize > 0
    THEN LET m == SzSub(s.mSize, 1)
         IN IF m < N
            THEN [s |-> [s EXCEPT !.mSize = m], fired |-> <<>>, ub |-> FALSE]
            ELSE LET p == VecPopBack(s.mOutOfPlace)
                 IN [s |-> [s EXCEPT !.mSize = m, !.mOutOfPlace = p.v],
                     fired |-> p.fired, ub |-> p.ub]
    ELSE [s |-> s, fired |-> <<>>, ub |-> FALSE]

\* pop_back()
pop_back(s) ==
    IF s.mSize > 0
    THEN LET m == SzSub(s.mSize, 1)
         IN IF m < N
            THEN [s |-> [s EXCEPT !.mSize = m, !.mInPlace[m] = FreshSlot],
                  fired |-> <<getInPlace(s, m)>>, ub |-> FALSE]
            ELSE LET p == VecPopBack(s.mOutOfPlace)
                 IN [s |-> [s EXCEPT !.mSize = m, !.mOutOfPlace = p.v],
                     fired |-> p.fired, ub |-> p.ub]
    ELSE [s |-> s, fired |-> <<>>, ub |-> FALSE]

\* the loop of erase: for (i = index; i < bound; ++i) slot i = std::move(slot i+1)
\* (mutant) the loop stops one slot early: i + 1 < bound
RECURSIVE ShiftDownShort(_, _, _)
ShiftDownShort(inp, i, bound) ==
    IF i + 1 < bound
    THEN ShiftDownShort([inp EXCEPT ![i].val = inp[i + 1].val], i + 1, bound)
    ELSE inp

RECURSIVE ShiftDown(_, _, _)
ShiftDown(inp, i, bound) ==
    IF i < bound
    THEN ShiftDown([inp EXCEPT ![i].val = inp[i + 1].val], i + 1, bound)
    ELSE inp

\* (mutant) the slot's destructor is called after the refill instead of first
EraseInPlace_destroysLate(s, index) ==
    LET destroyed == [s.mInPlace EXCEPT ![index] = FreshSlot]
        shifted == ShiftDown(destroyed, index, Min(SzSub(N, 1), SzSub(s.mSize, 1)))
    IN IF s.mSize > N
       THEN LET e == VecErase(s.mOutOfPlace, 0)
            IN [s |-> [s EXCEPT !.mInPlace = [shifted EXCEPT ![SzSub(N, 1)].val =
                                                  VecAt(s.mOutOfPlace, 0)],
                                !.mOutOfPlace = e.v,
                                !.mSize = SzSub(@, 1)],
                fired |-> e.fired \o <<getInPlace(s, index)>>,
                ub |-> e.ub, ret |-> TRUE]
       ELSE [s |-> [s EXCEPT !.mInPlace = shifted, !.mSize = SzSub(@, 1)],
             fired |-> <<getInPlace(s, index)>>, ub |-> FALSE, ret |-> TRUE]

\* (mutant) the refill forgets mOutOfPlace.erase(mOutOfPlace.begin())
EraseInPlace_keepsOverflow(s, index) ==
    LET destroyed == [s.mInPlace EXCEPT ![index] = FreshSlot]
        shifted == ShiftDown(destroyed, index, Min(SzSub(N, 1), SzSub(s.mSize, 1)))
    IN IF s.mSize > N
       THEN [s |-> [s EXCEPT !.mInPlace = [shifted EXCEPT ![SzSub(N, 1)].val =
                                              VecAt(s.mOutOfPlace, 0)],
                             !.mSize = SzSub(@, 1)],
             fired |-> <<getInPlace(s, index)>>, ub |-> FALSE, ret |-> TRUE]
       ELSE [s |-> [s EXCEPT !.mInPlace = shifted, !.mSize = SzSub(@, 1)],
             fired |-> <<getInPlace(s, index)>>, ub |-> FALSE, ret |-> TRUE]

\* erase(index), the branch index < N: destroy the slot, shift the later slots
\* down and, when there are overflow elements, pull the first one into slot N-1
EraseInPlace(s, index) ==
    LET destroyed == [s.mInPlace EXCEPT ![index] = FreshSlot]
        shifted == ShiftDown(destroyed, index, Min(SzSub(N, 1), SzSub(s.mSize, 1)))
    IN IF s.mSize > N
       THEN LET e == VecErase(s.mOutOfPlace, 0)
            IN [s |-> [s EXCEPT !.mInPlace = [shifted EXCEPT ![SzSub(N, 1)].val =
                                                  VecAt(s.mOutOfPlace, 0)],
                                !.mOutOfPlace = e.v,
                                !.mSize = SzSub(@, 1)],
                fired |-> <<getInPlace(s, index)>> \o e.fired,
                ub |-> e.ub, ret |-> TRUE]
       ELSE [s |-> [s EXCEPT !.mInPlace = shifted, !.mSize = SzSub(@, 1)],
             fired |-> <<getInPlace(s, index)>>, ub |-> FALSE, ret |-> TRUE]

\* (mutant) the refill of slot N-1 runs in the overflow branch as well
EraseOutOfPlace_refills(s, index) ==
    LET e == VecErase(s.mOutOfPlace, SzSub(index, N))
    IN [s |-> [s EXCEPT !.mInPlace = IF N > 0
                                     THEN [@ EXCEPT ![N - 1].val = VecAt(s.mOutOfPlace, 0)]
                                     ELSE @,
                        !.mOutOfPlace = e.v,
                        !.mSize = SzSub(@, 1)],
        fired |-> e.fired, ub |-> e.ub, ret |-> TRUE]

\* erase(index), the branch index >= N: erase from the vector at index - N
EraseOutOfPlace(s, index) ==
    LET e == VecErase(s.mOutOfPlace, SzSub(index, N))
    IN [s |-> [s EXCEPT !.mOutOfPlace = e.v, !.mSize = SzSub(@, 1)],
        fired |-> e.fired, ub |-> e.ub, ret |-> TRUE]

\* erase(index) past its range test: index < mSize
EraseInRange(s, index) ==
    IF index < N THEN EraseInPlace(s, index) ELSE EraseOutOfPlace(s, index)

\* (mutant) the range test lets index == mSize through: index > mSize
erase_offByOne(s, index) ==
    IF index > s.mSize
    THEN [s |-> s, fired |-> <<>>, ub |-> FALSE, ret |-> FALSE]
    ELSE EraseInRange(s, index)

\* erase(index)
erase(s, index) ==
    IF index >= s.mSize
    THEN [s |-> s, fired |-> <<>>, ub |-> FALSE, ret |-> FALSE]
    ELSE EraseInRange(s, index)

\* (mutant) the range test lets index == mSize through: index > mSize
at_offByOne(s, index) ==
    IF s.mSize = 0 THEN [ok |-> FALSE, value |-> Garbage]
    ELSE IF index > s.mSize THEN [ok |-> FALSE, value |-> Garbage]
    ELSE IF index < N THEN [ok |-> TRUE, value |-> getInPlace(s, index)]
    ELSE IF SzSub(index, N) < VecLen(s.mOutOfPlace)
    THEN [ok |-> TRUE, value |-> VecAt(s.mOutOfPlace, SzSub(index, N))]
    ELSE [ok |-> FALSE, value |-> Garbage]

\* at(index): [ok |-> FALSE] stands for throwing std::out_of_range
at(s, index) ==
    IF s.mSize = 0 THEN [ok |-> FALSE, value |-> Garbage]
    ELSE IF index >= s.mSize THEN [ok |-> FALSE, value |-> Garbage]
    ELSE IF index < N THEN [ok |-> TRUE, value |-> getInPlace(s, index)]
    ELSE IF SzSub(index, N) < VecLen(s.mOutOfPlace)
    THEN [ok |-> TRUE, value |-> VecAt(s.mOutOfPlace, SzSub(index, N))]
    ELSE [ok |-> FALSE, value |-> Garbage]

\* the in-place loop of the copy constructor and of operator=:
\* for (i = 0; i < min(N, mSize); ++i) new(&getInPlace(i)) T(other.getInPlace(i))
CopyInPlace(s, other) ==
    [i \in 0 .. (N - 1) |->
        IF i < Min(N, s.mSize)
        THEN [val |-> getInPlace(other, i), live |-> TRUE]
        ELSE s.mInPlace[i]]

\* (mutant) the in-place loop runs before mSize is set, so it copies nothing
CopyCtor_loopBeforeSize(other) ==
    LET a1 == VecAssign(NewStorage.mOutOfPlace, other.mOutOfPlace)
        s1 == [NewStorage EXCEPT !.mOutOfPlace = a1.v]
    IN [s |-> [s1 EXCEPT !.mInPlace = CopyInPlace(s1, other), !.mSize = other.mSize],
        fired |-> a1.fired, ub |-> a1.ub]

\* FastStorage(const FastStorage& other), run on a fresh object
CopyCtor(other) ==
    LET a1 == VecAssign(NewStorage.mOutOfPlace, other.mOutOfPlace)
        s1 == [NewStorage EXCEPT !.mOutOfPlace = a1.v, !.mSize = other.mSize]
    IN [s |-> [s1 EXCEPT !.mInPlace = CopyInPlace(s1, other)],
        fired |-> a1.fired, ub |-> a1.ub]

\* operator=(const FastStorage& other) for this != &other
CopyAssignFrom(s, other) ==
    LET c == clear(s)
        s1 == [c.s EXCEPT !.mSize = other.mSize]
        s2 == [s1 EXCEPT !.mInPlace = CopyInPlace(s1, other)]
        a1 == VecAssign(s2.mOutOfPlace, other.mOutOfPlace)
    IN [s |-> [s2 EXCEPT !.mOutOfPlace = a1.v],
        fired |-> c.fired \o a1.fired, ub |-> c.ub \/ a1.ub]

\* FastStorage(std::initializer_list<T> list): push_back of every element in order
RECURSIVE PushAll(_, _)
PushAll(r, list) ==
    IF list = <<>> THEN r
    ELSE LET p == push_back(r.s, Head(list))
         IN PushAll([s |-> p.s, fired |-> r.fired \o p.fired, ub |-> r.ub \/ p.ub],
                    Tail(list))

ListCtor(list) == PushAll([s |-> NewStorage, fired |-> <<>>, ub |-> FALSE], list)

\* ------------------------------------------------------------- iterator
\* An iterator is [mIndex |-> logical index (size_t), mStorage |-> its container].
begin(o) == [mIndex |-> 0, mStorage |-> o]
end(o, s) == [mIndex |-> s.mSize, mStorage |-> o]

\* (mutant) post-decrement: the returned iterator keeps the index
IterErase_postDecrement(i, s) ==
    [erase(s, i.mIndex) EXCEPT !.ret = [mIndex |-> i.mIndex, mStorage |-> i.mStorage]]

\* (mutant) the decrement stops at 0 instead of wrapping around
IterErase_clamped(i, s) ==
    LET e == erase(s, i.mIndex)
    IN IF e.ret
       THEN [e EXCEPT !.ret = [mIndex |-> IF i.mIndex = 0 THEN 0 ELSE i.mIndex - 1,
                               mStorage |-> i.mStorage]]
       ELSE [e EXCEPT !.ret = [mIndex |-> i.mIndex, mStorage |-> i.mStorage]]

\* iterator::erase(), reached through FastStorage::erase(iterator_type)
IterErase(i, s) ==
    LET e == erase(s, i.mIndex)
    IN IF e.ret
       THEN [e EXCEPT !.ret = [mIndex |-> SzSub(i.mIndex, 1), mStorage |-> i.mStorage]]
       ELSE [e EXCEPT !.ret = [mIndex |-> i.mIndex, mStorage |-> i.mStorage]]

\* iterator::operator++
IterInc(i) == [i EXCEPT !.mIndex = SzAdd(@, 1)]

\* iterator::operator++(int): tmp = mIndex; ++*this; the iterator returned is
\* at tmp, the position before the increment
IterPostInc(i) ==
    LET tmp == i.mIndex
    IN [self |-> IterInc(i), ret |-> [mIndex |-> tmp, mStorage |-> i.mStorage]]

\* iterator::operator!=
IterNe(i, j) == i.mIndex # j.mIndex

\* a difference_type (signed, as wide as size_t) argument converted to size_t is
\* ToSizeT; a size_t value converted to difference_type:
ToDiffT(x) == IF x >= SizeMod \div 2 THEN x - SizeMod ELSE x

\* iterator::operator*: (*mStorage)[mIndex]
IterDeref(i, s) == Subscript(s, i.mIndex)

\* iterator::operator[](off) is `return &(mStorage->operator[](mIndex));`: it
\* returns the ADDRESS of the element at mIndex where a `reference` is expected,
\* and never uses off.  The return statement is well-formed only when a T can be
\* made from a pointer to T and bound to the reference (a const_iterator over
\* bool, the pointer converting to true).  The elements modelled here are those of
\* the tests (int, MyInt, TestDestructorCalls), for which it is not: the compiler
\* rejects every use of it[off].
ElemConvertsFromPointer == FALSE

\* what a use of it[off] ends in when it is compiled: the reference returned is
\* bound to a temporary that is gone at the return (the build returns a null
\* reference), so reading it is undefined and the builds crash
CrashOutcome == [ok |-> FALSE, value |-> Garbage, ub |-> TRUE]

\* the outcomes of it[off]: no element is ever yielded -- none at all where the
\* expression is rejected, the crash where it is accepted
IterSubscript(i, off, s) == IF ElemConvertsFromPointer THEN {CrashOutcome} ELSE {}

\* iterator::operator--
IterDec(i) == [i EXCEPT !.mIndex = SzSub(@, 1)]

\* iterator::operator--(int): tmp = mIndex; --*this; the iterator returned is
\* at tmp, the position before the decrement
IterPostDec(i) ==
    LET tmp == i.mIndex
    IN [self |-> IterDec(i), ret |-> [mIndex |-> tmp, mStorage |-> i.mStorage]]

\* iterator::operator+=(off): mIndex += off, off converted to size_t
IterAddAssign(i, off) == [i EXCEPT !.mIndex = SzAdd(@, ToSizeT(off))]

\* iterator::operator+(off)
IterPlus(i, off) == [mIndex |-> SzAdd(i.mIndex, ToSizeT(off)), mStorage |-> i.mStorage]

\* operator+(off, right)
IterPlusLeft(off, right) ==
    [mIndex |-> SzAdd(ToSizeT(off), right.mIndex), mStorage |-> right.mStorage]

\* iterator::operator-=(off)
IterSubAssign(i, off) == [i EXCEPT !.mIndex = SzSub(@, ToSizeT(off))]

\* iterator::operator-(off)
IterMinus(i, off) == [mIndex |-> SzSub(i.mIndex, ToSizeT(off)), mStorage |-> i.mStorage]

\* (mutant) the difference is returned without the conversion to the signed type
IterDiff_unsigned(i, right) == SzSub(i.mIndex, right.mIndex)

\* iterator::operator-(right): mIndex - right.mIndex in size_t, returned as
\* difference_type
IterDiff(i, right) == ToDiffT(SzSub(i.mIndex, right.mIndex))

\* the comparison operators: each compares the two mIndex values
IterEq(i, r) == i.mIndex = r.mIndex
IterLt(i, r) == i.mIndex < r.mIndex
IterLe(i, r) == i.mIndex <= r.mIndex
IterGt(i, r) == i.mIndex > r.mIndex
IterGe(i, r) == i.mIndex >= r.mIndex

\* i rel r for the comparison operator named rel
IterCompare(rel, i, r) ==
    CASE rel = "==" -> IterEq(i, r)
      [] rel = "!=" -> IterNe(i, r)
      [] rel = "<" -> IterLt(i, r)
      [] rel = "<=" -> IterLe(i, r)
      [] rel = ">" -> IterGt(i, r)
      [] rel = ">=" -> IterGe(i, r)


\* operator[](index) = value: a write through the unchecked accessor
SubscriptAssign(s, index, value) ==
    IF index < N
    THEN [s EXCEPT !.mInPlace[index].val = value]
    ELSE [s EXCEPT !.mOutOfPlace.elems[SzSub(index, N) + 1] = value]

\* (mutant) no self-assignment test
copy_assign_noSelfTest(st, o, other) == CopyAssignFrom(st[o], st[other])

\* operator=(const FastStorage& other), with its self-assignment test
copy_assign(st, o, other) ==
    IF o = other
    THEN [s |-> st[o], fired |-> <<>>, ub |-> FALSE]
    ELSE CopyAssignFrom(st[o], st[other])

\* (mutant) no user-written destructor: only the vector member is destroyed
Destructor_noClear(s) ==
    [s |-> NoStorage, fired |-> VecClear(s.mOutOfPlace).fired, ub |-> FALSE]

\* ~FastStorage(): clear(), after which the object is gone
Destructor(s) == [clear(s) EXCEPT !.s = NoStorage]

\* ------------------------------------------------------------- accesses
\* The in-place slot indices a call passes to getInPlace / &mInPlace[..], and the
\* positions of mOutOfPlace it reads, erases or pops, as sets of size_t values.
\* push_back / emplace_back: &mInPlace[mSize] when mSize < N
PushInPlace(s) == IF s.mSize < N THEN {s.mSize} ELSE {}

\* pop_back: getInPlace(mSize) after --mSize, when that is < N
PopInPlace(s) ==
    IF s.mSize > 0 /\ SzSub(s.mSize, 1) < N THEN {SzSub(s.mSize, 1)} ELSE {}

\* pop_back: otherwise mOutOfPlace.pop_back(), which takes the vector's last position
PopOutOfPlace(s) ==
    IF s.mSize > 0 /\ SzSub(s.mSize, 1) >= N
    THEN {SzSub(VecLen(s.mOutOfPlace), 1)}
    ELSE {}

\* (mutant) the loop runs to i < N instead of i < min(N - 1, mSize - 1)
EraseInPlaceSlots_loopToN(s, index) ==
    IF index < s.mSize /\ index < N
    THEN {index}
         \cup {i \in 0 .. (SizeMod - 1) : index <= i /\ i < N}
         \cup {SzAdd(i, 1) : i \in {j \in 0 .. (SizeMod - 1) : index <= j /\ j < N}}
         \cup (IF s.mSize > N THEN {SzSub(N, 1)} ELSE {})
    ELSE {}

\* erase: getInPlace(index), getInPlace(i) and getInPlace(i + 1) for every i of the
\* loop, and getInPlace(N - 1) for the refill
EraseInPlaceSlots(s, index) ==
    IF index < s.mSize /\ index < N
    THEN LET bound == Min(SzSub(N, 1), SzSub(s.mSize, 1))
         IN {index}
            \cup {i \in 0 .. (SizeMod - 1) : index <= i /\ i < bound}
            \cup {SzAdd(i, 1) : i \in {j \in 0 .. (SizeMod - 1) : index <= j /\ j < bound}}
            \cup (IF s.mSize > N THEN {SzSub(N, 1)} ELSE {})
    ELSE {}

\* erase: mOutOfPlace[0] and begin() for the refill, begin() + (index - N) otherwise
EraseOutOfPlacePos(s, index) ==
    IF index >= s.mSize THEN {}
    ELSE IF index < N THEN (IF s.mSize > N THEN {0} ELSE {})
    ELSE {SzSub(index, N)}

\* the operands N - 1 and mSize - 1 of erase's loop bound, when it is evaluated
EraseBoundOperands(s, index) ==
    IF index < s.mSize /\ index < N THEN {N, s.mSize} ELSE {}

\* clear: getInPlace(i) for i < min(N, mSize)
ClearInPlace(s) == {i \in 0 .. (SizeMod - 1) : i < Min(N, s.mSize)}

\* copy constructor and operator=: getInPlace(i) of both objects for
\* i < min(N, other.mSize)
CopyInPlaceSlots(other) == {i \in 0 .. (SizeMod - 1) : i < Min(N, other.mSize)}

\* operator[]: getInPlace(index) when index < N
SubscriptInPlace(index) == IF index < N THEN {index} ELSE {}

\* operator[]: mOutOfPlace[index - N] otherwise
SubscriptOutOfPlace(index) == IF index < N THEN {} ELSE {SzSub(index, N)}

\* ------------------------------------------------------------- reference
\* The plain sequence the container is compared with.
RefPush(r, v) == Append(r, v)
RefPop(r) == IF r = <<>> THEN r ELSE SubSeq(r, 1, Len(r) - 1)
RefErase(r, index) ==
    IF index < Len(r) THEN SubSeq(r, 1, index) \o SubSeq(r, index + 2, Len(r)) ELSE r

\* the elements read by operator[] at 0 .. size()-1
Contents(s) == [k \in 1 .. s.mSize |-> Subscript(s, k - 1)]

\* ------------------------------------------------------------- inputs
InitLists == UNION {[1 .. n -> Values] : n \in 0 .. MaxInit}
\* index arguments: in range, just out of range, and negative ints converted to size_t
Indices == (0 .. MaxSize) \cup {ToSizeT(-1), ToSizeT(-1100)}

NoIter == [mIndex |-> 0, mStorage |-> "a"]
Idle == [pc |-> "idle", k0 |-> 0, erased |-> 0]

Call(op, o, index, value, ok, pos, fired, ub) ==
    [op |-> op, obj |-> o, index |-> index, value |-> value, ok |-> ok,
     pos |-> pos, fired |-> fired, ub |-> ub]

Callable(o) == loop.pc = "idle" /\ store[o].alive

\* ------------------------------------------------------------- actions
Init ==
    /\ N \in 0 .. MaxN
    /\ \E list \in InitLists :
          LET r == ListCtor(list)
          IN /\ store = [o \in Objs |-> IF o = "a" THEN r.s ELSE NoStorage]
             /\ ref = [o \in Objs |-> IF o = "a" THEN list ELSE <<>>]
             /\ last = Call("ctor", "a", 0, Len(list), TRUE, 0, r.fired, r.ub)
    /\ it = NoIter
    /\ loop = Idle

\* FastStorage<T, N> o{list}
Construct(o, list) ==
    /\ loop.pc = "idle" /\ ~store[o].alive
    /\ LET r == ListCtor(list)
       IN /\ store' = [store EXCEPT ![o] = r.s]
          /\ last' = Call("ctor", o, 0, Len(list), TRUE, 0, r.fired, r.ub)
    /\ ref' = [ref EXCEPT ![o] = list]
    /\ UNCHANGED <<N, it, loop>>

\* FastStorage<T, N> o = other
CopyConstruct(o, other) ==
    /\ loop.pc = "idle" /\ ~store[o].alive /\ store[other].alive
    /\ LET r == CopyCtor(store[other])
       IN /\ store' = [store EXCEPT ![o] = r.s]
          /\ last' = Call("copy_ctor", o, 0, 0, TRUE, 0, r.fired, r.ub)
    /\ ref' = [ref EXCEPT ![o] = ref[other]]
    /\ UNCHANGED <<N, it, loop>>

\* o = other
CopyAssign(o, other) ==
    /\ Callable(o) /\ store[other].alive
    /\ LET r == copy_assign(store, o, other)
       IN /\ store' = [store EXCEPT ![o] = r.s]
          /\ last' = Call("copy_assign", o, 0, 0, o # other, 0, r.fired, r.ub)
    /\ ref' = [ref EXCEPT ![o] = ref[other]]
    /\ UNCHANGED <<N, it, loop>>

\* o goes out of scope
Destruct(o) ==
    /\ Callable(o)
    /\ LET r == Destructor(store[o])
       IN /\ store' = [store EXCEPT ![o] = r.s]
          /\ last' = Call("dtor", o, 0, 0, TRUE, 0, r.fired, r.ub)
    /\ ref' = [ref EXCEPT ![o] = <<>>]
    /\ UNCHANGED <<N, it, loop>>

\* o.clear()
Clear(o) ==
    /\ Callable(o)
    /\ LET r == clear(store[o])
       IN /\ store' = [store EXCEPT ![o] = r.s]
          /\ last' = Call("clear", o, 0, 0, TRUE, 0, r.fired, r.ub)
    /\ ref' = [ref EXCEPT ![o] = <<>>]
    /\ UNCHANGED <<N, it, loop>>

\* o.push_back(v)
PushBack(o, v) ==
    /\ Callable(o) /\ store[o].mSize < MaxSize
    /\ LET r == push_back(store[o], v)
       IN /\ store' = [store EXCEPT ![o] = r.s]
          /\ last' = Call("push_back", o, 0, v, TRUE, 0, r.fired, r.ub)
    /\ ref' = [ref EXCEPT ![o] = RefPush(@, v)]
    /\ UNCHANGED <<N, it, loop>>

\* o.emplace_back(v)
EmplaceBack(o, v) ==
    /\ Callable(o) /\ store[o].mSize < MaxSize
    /\ LET r == emplace_back(store[o], v)
       IN /\ store' = [store EXCEPT ![o] = r.s]
          /\ last' = Call("emplace_back", o, 0, v, TRUE, 0, r.fired, r.ub)
    /\ ref' = [ref EXCEPT ![o] = RefPush(@, v)]
    /\ UNCHANGED <<N, it, loop>>

\* o.pop_back()
PopBack(o) ==
    /\ Callable(o)
    /\ LET r == pop_back(store[o])
       IN /\ store' = [store EXCEPT ![o] = r.s]
          /\ last' = Call("pop_back", o, 0, 0, TRUE, 0, r.fired, r.ub)
    /\ ref' = [ref EXCEPT ![o] = RefPop(@)]
    /\ UNCHANGED <<N, it, loop>>

\* o.erase(index)
Erase(o, index) ==
    /\ Callable(o)
    /\ LET r == erase(store[o], index)
       IN /\ store' = [store EXCEPT ![o] = r.s]
          /\ last' = Call("erase", o, index, 0, r.ret, 0, r.fired, r.ub)
    /\ ref' = [ref EXCEPT ![o] = RefErase(@, index)]
    /\ UNCHANGED <<N, it, loop>>

\* o.at(index)
At(o, index) ==
    /\ Callable(o)
    /\ LET r == at(store[o], index)
       IN last' = Call("at", o, index, r.value, r.ok, 0, <<>>, FALSE)
    /\ UNCHANGED <<N, store, ref, it, loop>>

\* o[index] = v, for an index inside the container
Assign(o, index, v) ==
    /\ Callable(o) /\ index < store[o].mSize
    /\ store' = [store EXCEPT ![o] = SubscriptAssign(@, index, v)]
    /\ last' = Call("assign", o, index, v, TRUE, 0, <<>>, FALSE)
    /\ ref' = [ref EXCEPT ![o][index + 1] = v]
    /\ UNCHANGED <<N, it, loop>>

\* o.erase(iterator at index k)
EraseIter(o, k) ==
    /\ Callable(o)
    /\ LET r == IterErase([mIndex |-> k, mStorage |-> o], store[o])
       IN /\ store' = [store EXCEPT ![o] = r.s]
          /\ last' = Call("erase_it", o, k, 0, r.ret.mIndex # k, r.ret.mIndex, r.fired, r.ub)
    /\ ref' = [ref EXCEPT ![o] = RefErase(@, k)]
    /\ UNCHANGED <<N, it, loop>>

\* for (auto i = o.begin(); i != o.end(); ++i) { i = o.erase(i); }
LoopBegin(o) ==
    /\ Callable(o)
    /\ it' = begin(o)
    /\ loop' = [pc |-> "test", k0 |-> store[o].mSize, erased |-> 0]
    /\ UNCHANGED <<N, store, last, ref>>

LoopTest ==
    /\ loop.pc = "test"
    /\ loop' = [loop EXCEPT !.pc = IF IterNe(it, end(it.mStorage, store[it.mStorage]))
                                   THEN "body" ELSE "done"]
    /\ UNCHANGED <<N, store, last, ref, it>>

LoopBody ==
    /\ loop.pc = "body"
    /\ LET o == it.mStorage
           r == IterErase(it, store[o])
           done == store[o].mSize # r.s.mSize
       IN /\ store' = [store EXCEPT ![o] = r.s]
          /\ last' = Call("erase_it", o, it.mIndex, 0, done, r.ret.mIndex, r.fired, r.ub)
          /\ ref' = [ref EXCEPT ![o] = RefErase(@, it.mIndex)]
          /\ it' = r.ret
          /\ loop' = [loop EXCEPT !.pc = "incr",
                                  !.erased = IF done THEN @ + 1 ELSE @]
    /\ UNCHANGED N

LoopIncr ==
    /\ loop.pc = "incr"
    /\ it' = IterInc(it)
    /\ loop' = [loop EXCEPT !.pc = "test"]
    /\ UNCHANGED <<N, store, last, ref>>

LoopExit ==
    /\ loop.pc = "done"
    /\ it' = NoIter
    /\ loop' = Idle
    /\ UNCHANGED <<N, store, last, ref>>

\* A client working on the single object a, with every operation.
Next ==
    \/ \E list \in InitLists : Construct("a", list)
    \/ CopyAssign("a", "a")
    \/ Destruct("a")
    \/ Clear("a")
    \/ \E v \in Values : PushBack("a", v)
    \/ \E v \in Values : EmplaceBack("a", v)
    \/ PopBack("a")
    \/ \E index \in Indices : Erase("a", index)
    \/ \E index \in Indices : At("a", index)
    \/ \E index \in Indices, v \in Values : Assign("a", index, v)
    \/ \E k \in Indices : EraseIter("a", k)
    \/ LoopBegin("a")
    \/ LoopTest
    \/ LoopBody
    \/ LoopIncr
    \/ LoopExit

Spec == Init /\ [][Next]_vars

\* A client working on the two objects a and b: copies and mutators.
CopyNext ==
    \/ \E o \in Objs, other \in Objs : CopyConstruct(o, other)
    \/ \E o \in Objs, other \in Objs : CopyAssign(o, other)
    \/ \E o \in Objs : Destruct(o)
    \/ \E o \in Objs : Clear(o)
    \/ \E o \in Objs, v \in Values : store[o].mSize < MaxCopySize /\ PushBack(o, v)
    \/ \E o \in Objs : PopBack(o)
    \/ \E o \in Objs, index \in 0 .. MaxCopySize : Erase(o, index)
    \/ \E o \in Objs, index \in 0 .. MaxCopySize, v \in Values : Assign(o, index, v)

CopyInit == Init /\ store["a"].mSize <= MaxCopySize

CopySpec == CopyInit /\ [][CopyNext]_vars

\* A client working on a and b with every operation that builds or changes a
\* container: construction from a list, the copies and the mutators.
AllNext ==
    \/ CopyNext
    \/ \E o \in Objs, list \in InitLists : Len(list) <= MaxCopySize /\ Construct(o, list)
    \/ \E o \in Objs, v \in Values : store[o].mSize < MaxCopySize /\ EmplaceBack(o, v)

AllSpec == CopyInit /\ [][AllNext]_vars

\* The loop is straight-line code of one thread: once entered it keeps running.
LoopStep == LoopTest \/ LoopBody \/ LoopIncr

LoopSpec == Init /\ [][Next]_vars /\ WF_vars(LoopStep)

\* ------------------------------------------------------------- iterator client
\* A client that moves the iterator `it` over a and computes with it.
\* offsets (difference_type arguments), both signs
Offsets == (0 - MaxOff) .. MaxOff
\* the iterator positions explored: those of the container and the ones that
\* wrapped around below begin()
IterWindow == {x \in 0 .. (SizeMod - 1) : x <= MaxSize \/ x >= SizeMod - MaxOff}
Relations == {"==", "!=", "<", "<=", ">", ">="}

IterAt(o, k) == [mIndex |-> k, mStorage |-> o]

\* it = o.begin()
ItBegin(o) ==
    /\ Callable(o)
    /\ it' = begin(o)
    /\ last' = Call("begin", o, 0, 0, TRUE, 0, <<>>, FALSE)
    /\ UNCHANGED <<N, store, ref, loop>>

\* it = o.end()
ItEnd(o) ==
    /\ Callable(o)
    /\ it' = end(o, store[o])
    /\ last' = Call("end", o, 0, 0, TRUE, store[o].mSize, <<>>, FALSE)
    /\ UNCHANGED <<N, store, ref, loop>>

\* ++it
ItIncr(o) ==
    /\ Callable(o) /\ it.mStorage = o
    /\ it' = IterInc(it) /\ it'.mIndex \in IterWindow
    /\ last' = Call("it_inc", o, it.mIndex, 0, TRUE, it'.mIndex, <<>>, FALSE)
    /\ UNCHANGED <<N, store, ref, loop>>

\* --it
ItDecr(o) ==
    /\ Callable(o) /\ it.mStorage = o
    /\ it' = IterDec(it) /\ it'.mIndex \in IterWindow
    /\ last' = Call("it_dec", o, it.mIndex, 0, TRUE, it'.mIndex, <<>>, FALSE)
    /\ UNCHANGED <<N, store, ref, loop>>

\* r = it++: it moves on by one, r (recorded in pos) is where it was
ItPostIncr(o) ==
    /\ Callable(o) /\ it.mStorage = o
    /\ it' = IterPostInc(it).self /\ it'.mIndex \in IterWindow
    /\ last' = Call("it_post_inc", o, it.mIndex, 0, TRUE, IterPostInc(it).ret.mIndex,
                    <<>>, FALSE)
    /\ UNCHANGED <<N, store, ref, loop>>

\* r = it--: it moves back by one, r (recorded in pos) is where it was
ItPostDecr(o) ==
    /\ Callable(o) /\ it.mStorage = o
    /\ it' = IterPostDec(it).self /\ it'.mIndex \in IterWindow
    /\ last' = Call("it_post_dec", o, it.mIndex, 0, TRUE, IterPostDec(it).ret.mIndex,
                    <<>>, FALSE)
    /\ UNCHANGED <<N, store, ref, loop>>

\* it += off
ItAddAssign(o, off) ==
    /\ Callable(o) /\ it.mStorage = o
    /\ it' = IterAddAssign(it, off) /\ it'.mIndex \in IterWindow
    /\ last' = Call("it_add_assign", o, it.mIndex, off, TRUE, it'.mIndex, <<>>, FALSE)
    /\ UNCHANGED <<N, store, ref, loop>>

\* it -= off
ItSubAssign(o, off) ==
    /\ Callable(o) /\ it.mStorage = o
    /\ it' = IterSubAssign(it, off) /\ it'.mIndex \in IterWindow
    /\ last' = Call("it_sub_assign", o, it.mIndex, off, TRUE, it'.mIndex, <<>>, FALSE)
    /\ UNCHANGED <<N, store, ref, loop>>

\* it + off, off + it and it - off: the position of the iterator returned
ItPlus(o, off) ==
    /\ Callable(o) /\ it.mStorage = o
    /\ last' = Call("it_plus", o, it.mIndex, off, TRUE, IterPlus(it, off).mIndex, <<>>, FALSE)
    /\ UNCHANGED <<N, store, ref, it, loop>>

ItPlusLeft(o, off) ==
    /\ Callable(o) /\ it.mStorage = o
    /\ last' = Call("it_plus_left", o, it.mIndex, off, TRUE,
                    IterPlusLeft(off, it).mIndex, <<>>, FALSE)
    /\ UNCHANGED <<N, store, ref, it, loop>>

ItMinus(o, off) ==
    /\ Callable(o) /\ it.mStorage = o
    /\ last' = Call("it_minus", o, it.mIndex, off, TRUE, IterMinus(it, off).mIndex, <<>>, FALSE)
    /\ UNCHANGED <<N, store, ref, it, loop>>

\* it - j for an iterator j of the same container at position k
ItDiff(o, k) ==
    /\ Callable(o) /\ it.mStorage = o
    /\ last' = Call("it_diff", o, it.mIndex, IterDiff(it, IterAt(o, k)), TRUE, k, <<>>, FALSE)
    /\ UNCHANGED <<N, store, ref, it, loop>>

\* the six comparisons of it with an iterator j of the same container at position
\* k: the value recorded is the set of the relations found true
ItCompare(o, k) ==
    /\ Callable(o) /\ it.mStorage = o
    /\ last' = Call("it_compare", o, it.mIndex,
                    {rel \in Relations : IterCompare(rel, it, IterAt(o, k))},
                    TRUE, k, <<>>, FALSE)
    /\ UNCHANGED <<N, store, ref, it, loop>>

\* *it, for an iterator inside the container
ItDeref(o) ==
    /\ Callable(o) /\ it.mStorage = o /\ it.mIndex < store[o].mSize
    /\ last' = Call("it_deref", o, it.mIndex, IterDeref(it, store[o]), TRUE, 0, <<>>, FALSE)
    /\ UNCHANGED <<N, store, ref, it, loop>>

\* The container gets its first elements from the initializer list; the pushes
\* that make it longer all push the same value.
IterNext ==
    \/ PushBack("a", MaxVal)
    \/ PopBack("a")
    \/ ItBegin("a")
    \/ ItEnd("a")
    \/ ItIncr("a")
    \/ ItDecr("a")
    \/ ItPostIncr("a")
    \/ ItPostDecr("a")
    \/ \E off \in Offsets : ItAddAssign("a", off)
    \/ \E off \in Offsets : ItSubAssign("a", off)
    \/ \E off \in Offsets : ItPlus("a", off)
    \/ \E off \in Offsets : ItPlusLeft("a", off)
    \/ \E off \in Offsets : ItMinus("a", off)
    \/ \E k \in IterWindow : ItDiff("a", k)
    \/ \E k \in IterWindow : ItCompare("a", k)
    \/ ItDeref("a")

IterSpec == Init /\ [][IterNext]_vars

\* ------------------------------------------------------------- claims
\* Claims about one call are stated of the step that makes it: every action
\* records its call in last', so a step of Erase(o, index) is a step with
\* last'.op = "erase", last'.obj = o and last'.index = index.
\* how often v occurs in seq
Count(seq, v) == Cardinality({k \in 1 .. Len(seq) : seq[k] = v})
\* seq1 and seq2 hold the same elements, each as often
SameElements(seq1, seq2) ==
    /\ Len(seq1) = Len(seq2)
    /\ \A v \in Values \cup {Garbage} : Count(seq1, v) = Count(seq2, v)

\* C1: whatever push_back / emplace_back / pop_back / erase calls were made on a
\* container created empty or from an initializer list, size() is the length of
\* the reference sequence subjected to the same calls and operator[] reads its
\* elements at 0 .. size()-1 -- also after an erase of an inline index while
\* size > N, when the first overflow element has to arrive in slot N-1.
C1_MatchesReference ==
    \A o \in Objs :
        store[o].alive =>
            /\ size(store[o]) = Len(ref[o])
            /\ \A i \in 0 .. (Len(ref[o]) - 1) : Subscript(store[o], i) = ref[o][i + 1]

\* an erase of inline index 0 that pulled the first overflow element into slot N-1,
\* with different values on the two sides of the boundary
C1_Witness ==
    /\ last.op = "erase" /\ last.ok /\ last.index = 0
    /\ N = 2 /\ store["a"].mSize = 3
    /\ Len(last.fired) = 2
    /\ getInPlace(store["a"], 1) # VecAt(store["a"].mOutOfPlace, 0)
    /\ getInPlace(store["a"], 0) # getInPlace(store["a"], 1)

\* C2: at(index) throws OutOfRange exactly when size == 0 or index >= size (index ==
\* size and negative arguments converted to size_t included), for every N including
\* 0; a call of at changes neither size nor contents; and for index < size it
\* returns the element operator[](index) returns.
C2_AtChecked ==
    /\ [](last.op = "at" =>
            LET s == store[last.obj]
            IN /\ (~last.ok) <=> (s.mSize = 0 \/ last.index >= s.mSize)
               /\ last.ok => last.value = Subscript(s, last.index))
    /\ [][(last'.op = "at" /\ At(last'.obj, last'.index)) =>
              store' = store /\ ref' = ref]_vars

\* at(-1) thrown on a non-empty container without in-place slots
C2_Witness ==
    /\ last.op = "at" /\ ~last.ok /\ last.index = ToSizeT(-1)
    /\ N = 0 /\ store["a"].mSize > 0

\* C3: erase(index) with index >= size returns false and changes nothing (size,
\* in-place slots, overflow vector) and fires no destructor; with index < size it
\* returns true and size decreases by exactly 1.
C3_EraseOutOfRange ==
    [][(last'.op = "erase" /\ Erase(last'.obj, last'.index)) =>
          LET o == last'.obj
              index == last'.index
          IN IF index >= store[o].mSize
             THEN ~last'.ok /\ store' = store /\ last'.fired = <<>>
             ELSE last'.ok /\ store'[o].mSize = store[o].mSize - 1]_vars

\* erase(size) refused on a container that has elements in both regions
C3_Witness ==
    /\ last.op = "erase" /\ ~last.ok
    /\ last.index = store["a"].mSize
    /\ store["a"].mSize > N /\ N > 0

\* C4: pop_back on an empty container changes nothing: size stays 0, no destructor
\* fires, the overflow vector is not touched, nothing undefined is reached --
\* whether the container was never filled or was emptied before.
C4_PopBackEmpty ==
    [][(last'.op = "pop_back" /\ PopBack(last'.obj) /\ store[last'.obj].mSize = 0) =>
          /\ store' = store
          /\ store'[last'.obj].mSize = 0
          /\ last'.fired = <<>>
          /\ ~last'.ub]_vars

\* pop_back on a container that is empty again after having used its overflow vector
C4_Witness ==
    /\ last.op = "pop_back" /\ last.fired = <<>>
    /\ store["a"].mSize = 0
    /\ store["a"].mOutOfPlace.cap > 0


\* the step is the call that last' records, and it mutates object o
Mutates(o) ==
    /\ last'.obj = o
    /\ \/ last'.op = "clear" /\ Clear(o)
       \/ last'.op = "pop_back" /\ PopBack(o)
       \/ last'.op = "push_back" /\ PushBack(o, last'.value)
       \/ last'.op = "erase" /\ Erase(o, last'.index)
       \/ last'.op = "assign" /\ Assign(o, last'.index, last'.value)

\* the step is the call that last' records: o is constructed or assigned from other
Copies(o, other) ==
    /\ last'.obj = o
    /\ \/ last'.op = "copy_ctor" /\ CopyConstruct(o, other)
       \/ last'.op = "copy_assign" /\ CopyAssign(o, other)

\* C5: once b is copy-constructed or copy-assigned from a, b.size() == a.size() and
\* b[i] == a[i] for every i < size; and every mutation of one object (an element
\* write through operator[], push_back, pop_back, erase, clear) leaves the size and
\* every element of the other object as they were, in both regions.
C5_CopyIndependent ==
    [][\A o \in Objs, other \in Objs :
          /\ Copies(o, other) =>
                /\ size(store'[o]) = size(store[other])
                /\ Contents(store'[o]) = Contents(store[other])
                /\ Contents(store'[other]) = Contents(store[other])
          /\ (o # other /\ store[other].alive /\ Mutates(o)) =>
                /\ size(store'[other]) = size(store[other])
                /\ Contents(store'[other]) = Contents(store[other])]_vars

\* b, a copy of the same size as a, was written in its overflow region and now
\* differs from a there
C5_Witness ==
    /\ last.op = "assign" /\ last.obj = "b" /\ last.index >= N /\ N > 0
    /\ store["a"].alive /\ store["b"].alive
    /\ store["a"].mSize = store["b"].mSize
    /\ Subscript(store["a"], last.index) # Subscript(store["b"], last.index)
    /\ \A i \in 0 .. (N - 1) : Subscript(store["a"], i) = Subscript(store["b"], i)

\* C6: copy assignment b = a with b and a different objects destroys every element
\* that was live in b exactly once, then leaves b with the size and contents of a,
\* and a as it was, whatever the two sizes are relative to N; b = b changes nothing
\* and fires no destructor.
C6_CopyAssign ==
    [][\A o \in Objs, other \in Objs :
          (last'.op = "copy_assign" /\ CopyAssign(o, other)) =>
              IF o = other
              THEN store' = store /\ last'.fired = <<>>
              ELSE /\ Len(last'.fired) = size(store[o])
                   /\ SameElements(last'.fired, Contents(store[o]))
                   /\ size(store'[o]) = size(store[other])
                   /\ Contents(store'[o]) = Contents(store[other])
                   /\ store'[other] = store[other]]_vars

\* b, which held elements in both regions, was assigned a shorter a that fills
\* the in-place slots only
C6_Witness ==
    /\ last.op = "copy_assign" /\ last.obj = "b" /\ last.ok
    /\ N > 0 /\ Len(last.fired) > N
    /\ store["b"].mSize = N
    /\ Contents(store["b"]) = Contents(store["a"])

\* C7: erase(iterator at k) calls erase(k).  If k < size it returns an iterator at
\* k - 1 in size_t arithmetic (for k = 0 the largest size_t), so that one increment
\* gives k, where the element formerly at k + 1 now is; if k >= size it returns an
\* iterator at k and the container is unchanged.
C7_IteratorErase ==
    [][(last'.op = "erase_it" /\ EraseIter(last'.obj, last'.index)) =>
          LET o == last'.obj
              k == last'.index
          IN /\ store'[o] = erase(store[o], k).s
             /\ IF k < size(store[o])
                THEN /\ last'.pos = (IF k = 0 THEN SizeMod - 1 ELSE k - 1)
                     /\ IterInc([mIndex |-> last'.pos, mStorage |-> o]).mIndex = k
                     /\ size(store'[o]) = size(store[o]) - 1
                     /\ (k + 1 < size(store[o]) =>
                           Subscript(store'[o], k) = Subscript(store[o], k + 1))
                ELSE last'.pos = k /\ store' = store]_vars

\* erase(begin()) of a container with more elements: the iterator wraps around
C7_Witness ==
    /\ last.op = "erase_it" /\ last.ok /\ last.index = 0
    /\ last.pos = SizeMod - 1
    /\ store["a"].mSize > 0

\* C8: the loop for (i = begin(); i != end(); ++i) i = erase(i) ends, for every
\* initial size k and every N, after exactly k erases that all succeeded, with
\* size() == 0; erase is never called with an index outside the container.
C8_EraseLoop ==
    /\ [](loop.pc = "body" => it.mIndex < size(store[it.mStorage]))
    /\ [](loop.pc = "done" =>
            size(store[it.mStorage]) = 0 /\ loop.erased = loop.k0)
    /\ [](loop.pc # "idle" =>
            loop.erased + size(store[it.mStorage]) = loop.k0)
    /\ ((loop.pc = "test") ~> (loop.pc = "done"))

\* the loop ended on a container that had elements in both regions
C8_Witness ==
    /\ loop.pc = "done" /\ loop.k0 = MaxSize /\ loop.erased = MaxSize
    /\ N > 0 /\ N < MaxSize

\* C9: an operation on the overflow region only -- push_back / emplace_back with
\* size >= N, pop_back with size > N, erase(index) with N <= index < size -- leaves
\* every in-place slot as it was (value and lifetime); every push increases size
\* by exactly 1, and a container built by k pushes has size k.
C9_OverflowOnly ==
    /\ [](last.op = "ctor" => size(store[last.obj]) = last.value)
    /\ [][LET o == last'.obj
          IN /\ (\/ last'.op = "push_back" /\ PushBack(o, last'.value)
                 \/ last'.op = "emplace_back" /\ EmplaceBack(o, last'.value)) =>
                    /\ size(store'[o]) = size(store[o]) + 1
                    /\ size(store[o]) >= N =>
                          store'[o].mInPlace = store[o].mInPlace
             /\ (last'.op = "pop_back" /\ PopBack(o) /\ size(store[o]) > N) =>
                    store'[o].mInPlace = store[o].mInPlace
             /\ (/\ last'.op = "erase" /\ Erase(o, last'.index)
                 /\ N <= last'.index /\ last'.index < size(store[o])) =>
                    store'[o].mInPlace = store[o].mInPlace]_vars

\* an erase in the overflow region, next to in-place slots that hold other values
C9_Witness ==
    /\ last.op = "erase" /\ last.ok /\ last.index >= N /\ N = 2
    /\ store["a"].mSize > N
    /\ getInPlace(store["a"], 0) # getInPlace(store["a"], 1)
    /\ last.fired # <<getInPlace(store["a"], 1)>>

\* C10: clear() and the destructor, in any reachable state, leave size == 0 and the
\* overflow vector empty, and fire exactly one destructor for each of the size
\* elements the container held.
C10_ClearDestroysAll ==
    [][LET o == last'.obj
       IN (\/ last'.op = "clear" /\ Clear(o)
           \/ last'.op = "dtor" /\ Destruct(o)) =>
              /\ size(store'[o]) = 0
              /\ VecLen(store'[o].mOutOfPlace) = 0
              /\ Len(last'.fired) = size(store[o])
              /\ SameElements(last'.fired, Contents(store[o]))]_vars

\* clear() of a container that had used its overflow vector and was then reduced
\* to one element by calls among which an erase left slot 1 behind it
C10_Witness ==
    /\ last.op = "clear" /\ Len(last.fired) = 1 /\ N = 2
    /\ store["a"].mSize = 0
    /\ store["a"].mOutOfPlace.cap > 0
    /\ store["a"].mInPlace[1].live

\* C11: pop_back on a non-empty container fires exactly one destructor, that of
\* the element at logical index size-1 -- the in-place slot size-1 when the new
\* size is < N, the tail of the overflow vector otherwise -- and touches nothing
\* else.  The element it fires is the last one of the reference sequence, which
\* then loses it: a container built by k pushes and popped k times logs its
\* elements in reverse insertion order.
C11_PopBackDestroysTail ==
    [][(last'.op = "pop_back" /\ PopBack(last'.obj) /\ store[last'.obj].mSize > 0) =>
          LET o == last'.obj
              s == store[o]
              m == s.mSize - 1
          IN /\ last'.fired = <<Subscript(s, m)>>
             /\ last'.fired = <<ref[o][Len(ref[o])]>>
             /\ ref'[o] = SubSeq(ref[o], 1, Len(ref[o]) - 1)
             /\ size(store'[o]) = m
             /\ ~last'.ub
             /\ IF m < N
                THEN /\ ~store'[o].mInPlace[m].live
                     /\ \A i \in 0 .. (N - 1) :
                           i # m => store'[o].mInPlace[i] = s.mInPlace[i]
                     /\ store'[o].mOutOfPlace = s.mOutOfPlace
                ELSE /\ store'[o].mInPlace = s.mInPlace
                     /\ store'[o].mOutOfPlace.elems =
                           SubSeq(s.mOutOfPlace.elems, 1, VecLen(s.mOutOfPlace) - 1)]_vars

\* a pop of in-place slot 1 of a container that had used its overflow vector before:
\* the element of slot 1 fired, and slot 0 holds a different one
C11_Witness ==
    /\ last.op = "pop_back" /\ N = 2
    /\ store["a"].mSize = 1
    /\ store["a"].mOutOfPlace.cap > 0
    /\ ~store["a"].mInPlace[1].live
    /\ last.fired # <<getInPlace(store["a"], 0)>>
    /\ Len(last.fired) = 1

\* the step is a successful erase(index) of an in-place index
ErasesInPlace ==
    /\ last'.op = "erase" /\ Erase(last'.obj, last'.index)
    /\ last'.index < N /\ last'.index < store[last'.obj].mSize

\* C12 as claimed: a successful erase(index) with index < N fires the destructor
\* of the element at index first; if size > N exactly one more firing follows,
\* with the identity of the former first overflow element, which was read into
\* slot N-1 before; if size <= N nothing more fires.
C12_AsClaimed ==
    [][ErasesInPlace =>
          LET o == last'.obj
              s == store[o]
          IN /\ Len(last'.fired) >= 1
             /\ last'.fired[1] = Subscript(s, last'.index)
             /\ IF s.mSize > N
                THEN /\ Len(last'.fired) = 2
                     /\ last'.fired[2] = VecAt(s.mOutOfPlace, 0)
                     /\ getInPlace(store'[o], N - 1) = VecAt(s.mOutOfPlace, 0)
                ELSE Len(last'.fired) = 1]_vars

\* C12: a successful erase(index) with index < N fires the destructor of the
\* element at index first; if size > N exactly one more firing follows, after the
\* former first overflow element was read into slot N-1, and it carries the
\* identity of the former LAST overflow element (the vector shifts its elements
\* down by assignment and destroys its tail) -- the first one only when the
\* overflow vector held a single element; if size <= N nothing more fires.
C12_EraseInPlaceLog ==
    [][ErasesInPlace =>
          LET o == last'.obj
              s == store[o]
          IN /\ Len(last'.fired) >= 1
             /\ last'.fired[1] = Subscript(s, last'.index)
             /\ IF s.mSize > N
                THEN /\ Len(last'.fired) = 2
                     /\ last'.fired[2] = VecAt(s.mOutOfPlace, VecLen(s.mOutOfPlace) - 1)
                     /\ getInPlace(store'[o], N - 1) = VecAt(s.mOutOfPlace, 0)
                     /\ (VecLen(s.mOutOfPlace) = 1 =>
                           last'.fired[2] = VecAt(s.mOutOfPlace, 0))
                ELSE Len(last'.fired) = 1]_vars

\* erase(0) of [A, B, C, D] with N = 2 and C # D: the log is A, D while C is what
\* arrived in slot 1
C12_Witness ==
    /\ last.op = "erase" /\ last.ok /\ last.index = 0 /\ N = 2
    /\ store["a"].mSize = 3
    /\ Len(last.fired) = 2
    /\ last.fired[2] = VecAt(store["a"].mOutOfPlace, 0)
    /\ last.fired[2] # getInPlace(store["a"], 1)

\* C13: clear() destroys every overflow element before any in-place element, and
\* then the in-place elements in ascending index order 0 .. min(size, N)-1: its
\* log is the elements at the logical indices N .. size-1 followed by those at
\* 0, 1, .., min(size, N)-1 (3, 1, 2 for N = 2 holding [1, 2, 3]; the elements
\* in order when size <= N).
C13_ClearOrder ==
    [][(last'.op = "clear" /\ Clear(last'.obj)) =>
          LET o == last'.obj
              k == Len(ref[o])
              n == Min(k, N)
              log == last'.fired
          IN /\ Len(log) = k
             /\ SameElements(SubSeq(log, 1, k - n), SubSeq(ref[o], n + 1, k))
             /\ SubSeq(log, k - n + 1, k) = SubSeq(ref[o], 1, n)
             /\ \A j \in 1 .. n : log[k - n + j] = Subscript(store[o], j - 1)]_vars

\* clear() of [y, x, x] with N = 2 and x # y: the log is x (overflow), then y, x
C13_Witness ==
    /\ last.op = "clear" /\ N = 2
    /\ Len(last.fired) = 3
    /\ last.fired[1] # last.fired[2]
    /\ last.fired[3] # last.fired[2]

RECURSIVE Reverse(_)
Reverse(seq) == IF seq = <<>> THEN <<>> ELSE Reverse(Tail(seq)) \o <<Head(seq)>>

\* C14 as claimed: the destruction of a container whose live elements were pushed
\* in the order e1 .. ek destroys them in the reverse order ek, .., e1.
C14_AsClaimed ==
    [][(last'.op = "dtor" /\ Destruct(last'.obj)) =>
          last'.fired = Reverse(ref[last'.obj])]_vars

\* C14: the destruction of a container whose live elements were pushed in the
\* order e1 .. ek runs clear(): it destroys each of them once, the overflow
\* elements e(N+1) .. ek before every in-place element and then the in-place
\* elements in construction order e1 .. e(min(k, N)).  That is the reverse of
\* the construction order only when each region holds at most one element.
C14_TeardownOrder ==
    [][(last'.op = "dtor" /\ Destruct(last'.obj)) =>
          LET o == last'.obj
              k == Len(ref[o])
              n == Min(k, N)
              log == last'.fired
          IN /\ Len(log) = k
             /\ SameElements(SubSeq(log, 1, k - n), SubSeq(ref[o], n + 1, k))
             /\ SubSeq(log, k - n + 1, k) = SubSeq(ref[o], 1, n)
             /\ (n <= 1 /\ k - n <= 1) => log = Reverse(ref[o])
             /\ ~store'[o].alive]_vars

\* the destruction of [y, x, x] with N = 2 and x # y logged x, y, x
C14_Witness ==
    /\ last.op = "dtor" /\ N = 2
    /\ ~store["a"].alive
    /\ Len(last.fired) = 3
    /\ last.fired[1] # last.fired[2]
    /\ last.fired[3] # last.fired[2]

\* C15: with N = 0 the container is its overflow vector.  In every reachable
\* state there is no in-place slot, the vector holds size elements and they are
\* the reference sequence; no push_back / emplace_back / pop_back / erase / clear
\* (nor the initializer-list constructor) touches an in-place slot or leaves the
\* vector's preconditions; and clear fires as many destructors as elements are
\* stored.
C15_ZeroCapacity ==
    /\ [](N = 0 =>
            \A o \in Objs :
                store[o].alive =>
                    /\ DOMAIN store[o].mInPlace = {}
                    /\ VecLen(store[o].mOutOfPlace) = size(store[o])
                    /\ store[o].mOutOfPlace.elems = ref[o]
                    /\ Contents(store[o]) = ref[o])
    /\ [][N = 0 =>
            LET o == last'.obj
                s == store[o]
            IN /\ (\/ last'.op = "push_back" /\ PushBack(o, last'.value)
                   \/ last'.op = "emplace_back" /\ EmplaceBack(o, last'.value)) =>
                      PushInPlace(s) = {} /\ ~last'.ub
               /\ (last'.op = "pop_back" /\ PopBack(o)) =>
                      PopInPlace(s) = {} /\ ~last'.ub
               /\ (last'.op = "erase" /\ Erase(o, last'.index)) =>
                      EraseInPlaceSlots(s, last'.index) = {} /\ ~last'.ub
               /\ (last'.op = "clear" /\ Clear(o)) =>
                      /\ ClearInPlace(s) = {} /\ ~last'.ub
                      /\ Len(last'.fired) = VecLen(s.mOutOfPlace)
                      /\ Len(last'.fired) = size(s)
                      /\ last'.fired = ref[o]]_vars

\* N = 0: erase(1) of four elements took the second one out of the vector
C15_Witness ==
    /\ N = 0 /\ last.op = "erase" /\ last.ok /\ last.index = 1
    /\ store["a"].mSize = 3
    /\ VecLen(store["a"].mOutOfPlace) = 3
    /\ VecAt(store["a"].mOutOfPlace, 0) # VecAt(store["a"].mOutOfPlace, 1)

\* C16 (invariant I2): in every state reached by construction, push_back,
\* emplace_back, pop_back, erase, clear, copy construction and copy assignment the
\* overflow vector holds max(0, size - N) elements -- none while size <= N -- and
\* overflow[i - N] is the element at logical index i for N <= i < size; a push adds
\* to the vector exactly when size >= N, so the first value enters it on the push
\* made at size == N.
C16_OverflowLength ==
    /\ [](\A o \in Objs :
            store[o].alive =>
                LET s == store[o]
                IN /\ VecLen(s.mOutOfPlace) = (IF s.mSize > N THEN s.mSize - N ELSE 0)
                   /\ (s.mSize <= N => s.mOutOfPlace.elems = <<>>)
                   /\ \A i \in 0 .. (s.mSize - 1) :
                         i >= N => VecAt(s.mOutOfPlace, i - N) = ref[o][i + 1])
    /\ [][LET o == last'.obj
          IN (\/ last'.op = "push_back" /\ PushBack(o, last'.value)
              \/ last'.op = "emplace_back" /\ EmplaceBack(o, last'.value)) =>
                 /\ (VecLen(store'[o].mOutOfPlace) = VecLen(store[o].mOutOfPlace) + 1)
                       <=> (size(store[o]) >= N)
                 /\ (store[o].mOutOfPlace.elems = <<>> /\ store'[o].mOutOfPlace.elems # <<>>)
                       <=> (size(store[o]) = N)]_vars

\* b was assigned from a, which holds one element past a non-empty in-place region,
\* after b itself had held elements
C16_Witness ==
    /\ last.op = "copy_assign" /\ last.obj = "b" /\ last.ok /\ N = 1
    /\ last.fired # <<>>
    /\ store["b"].mSize = 2
    /\ VecLen(store["b"].mOutOfPlace) = 1
    /\ getInPlace(store["b"], 0) # VecAt(store["b"].mOutOfPlace, 0)

\* C17 (invariant I1): with the lifetime of every in-place slot tracked (begun by
\* placement new, ended by an explicit destructor call, unaffected by assignment),
\* in every reachable state every slot i < min(size, N) holds an object that was
\* constructed and not destroyed since -- also slot `index` and the slots shifted
\* by a successful erase(index) with index < N.
C17_InlineSlotsLive ==
    \A o \in Objs :
        store[o].alive =>
            \A i \in 0 .. (Min(store[o].mSize, N) - 1) : store[o].mInPlace[i].live

\* C18: in every reachable state no in-place slot at an index in [size, N) holds an
\* object that was constructed and not destroyed, so that push_back / emplace_back
\* never construct over a slot whose previous object was not destroyed -- the old
\* tail slot that an erase of an in-place index leaves behind included.
C18_SlotsBeyondSizeDead ==
    /\ [](\A o \in Objs :
            store[o].alive =>
                \A i \in 0 .. (N - 1) :
                    i >= store[o].mSize => ~store[o].mInPlace[i].live)
    /\ [][LET o == last'.obj
          IN ((\/ last'.op = "push_back" /\ PushBack(o, last'.value)
               \/ last'.op = "emplace_back" /\ EmplaceBack(o, last'.value))
              /\ store[o].mSize < N) =>
                 ~store[o].mInPlace[store[o].mSize].live]_vars

\* the element objects of s that were constructed and not destroyed
LiveObjects(s) ==
    Cardinality({i \in 0 .. (N - 1) : s.mInPlace[i].live}) + VecLen(s.mOutOfPlace)

\* the call reallocated the overflow vector, which destroys the relocated elements
Reallocated(s, s2) == s2.mOutOfPlace.cap # s.mOutOfPlace.cap /\ VecLen(s.mOutOfPlace) > 0

\* C19: every element object is destroyed exactly once.  Stated call by call, for
\* calls that do not reallocate the overflow vector: a push constructs one object
\* and fires nothing; pop_back, erase and clear run a destructor only on a slot
\* whose object is constructed and not destroyed, and each firing ends one
\* object; the destructor of the container fires once for every object still
\* constructed, leaving none.  Summed over a run that ends with the destruction
\* of the container, the firings are then as many as the objects constructed.
C19_DestroyedOnce ==
    [][LET o == last'.obj
           s == store[o]
           s2 == store'[o]
       IN /\ ((\/ last'.op = "push_back" /\ PushBack(o, last'.value)
               \/ last'.op = "emplace_back" /\ EmplaceBack(o, last'.value))
              /\ ~Reallocated(s, s2)) =>
                  /\ last'.fired = <<>>
                  /\ LiveObjects(s2) = LiveObjects(s) + 1
          /\ (last'.op = "pop_back" /\ PopBack(o)) =>
                  /\ \A i \in PopInPlace(s) : s.mInPlace[i].live
                  /\ LiveObjects(s2) = LiveObjects(s) - Len(last'.fired)
          /\ (last'.op = "erase" /\ Erase(o, last'.index)) =>
                  /\ (last'.ok /\ last'.index < N) => s.mInPlace[last'.index].live
                  /\ LiveObjects(s2) = LiveObjects(s) - Len(last'.fired)
          /\ (last'.op = "clear" /\ Clear(o)) =>
                  /\ \A i \in ClearInPlace(s) : s.mInPlace[i].live
                  /\ Len(last'.fired) = LiveObjects(s)
                  /\ LiveObjects(s2) = 0
          /\ (last'.op = "dtor" /\ Destruct(o)) =>
                  /\ \A i \in ClearInPlace(s) : s.mInPlace[i].live
                  /\ Len(last'.fired) = LiveObjects(s)]_vars

\* the in-place slots and the vector positions that exist in s
InPlaceRange == 0 .. (N - 1)
OutOfPlaceRange(s) == 0 .. (VecLen(s.mOutOfPlace) - 1)

\* C20: whatever push_back / emplace_back / pop_back / erase / clear / copy calls
\* are made, for every N >= 0: every in-place access of a call uses a slot index
\* < N; every access to the overflow vector uses a position < its length (erase
\* reads mOutOfPlace[0] only when the vector is not empty) and no vector operation
\* leaves its precondition; and erase evaluates N - 1 and mSize - 1 only with
\* N >= 1 and mSize >= 1, so that neither wraps around.
C20_IndexSafety ==
    [][LET o == last'.obj
           s == store[o]
       IN /\ (\/ last'.op = "push_back" /\ PushBack(o, last'.value)
              \/ last'.op = "emplace_back" /\ EmplaceBack(o, last'.value)) =>
                 PushInPlace(s) \subseteq InPlaceRange /\ ~last'.ub
          /\ (last'.op = "pop_back" /\ PopBack(o)) =>
                 /\ PopInPlace(s) \subseteq InPlaceRange
                 /\ PopOutOfPlace(s) \subseteq OutOfPlaceRange(s)
                 /\ ~last'.ub
          /\ (last'.op = "erase" /\ Erase(o, last'.index)) =>
                 /\ EraseInPlaceSlots(s, last'.index) \subseteq InPlaceRange
                 /\ EraseOutOfPlacePos(s, last'.index) \subseteq OutOfPlaceRange(s)
                 /\ \A x \in EraseBoundOperands(s, last'.index) :
                       x >= 1 /\ SzSub(x, 1) = x - 1
                 /\ (EraseInPlaceSlots(s, last'.index) \cup
                        EraseOutOfPlacePos(s, last'.index) # {}) <=> last'.ok
                 /\ ~last'.ub
          /\ (\/ last'.op = "clear" /\ Clear(o)
              \/ last'.op = "dtor" /\ Destruct(o)) =>
                 ClearInPlace(s) \subseteq InPlaceRange /\ ~last'.ub
          /\ \A other \in Objs :
                (\/ last'.op = "copy_ctor" /\ CopyConstruct(o, other)
                 \/ last'.op = "copy_assign" /\ CopyAssign(o, other) /\ o # other) =>
                    /\ CopyInPlaceSlots(store[other]) \subseteq InPlaceRange
                    /\ ClearInPlace(s) \subseteq InPlaceRange
                    /\ ~last'.ub]_vars

\* erase(0) with N = 1 and two elements: slot 0 = N - 1 was refilled from
\* mOutOfPlace[0], the only overflow element, and the loop did not run
C20_Witness ==
    /\ last.op = "erase" /\ last.ok /\ last.index = 0 /\ N = 1
    /\ store["a"].mSize = 1
    /\ Len(last.fired) = 2
    /\ store["a"].mOutOfPlace.elems = <<>>
    /\ getInPlace(store["a"], 0) = last.fired[2]

\* C21: subscripting an iterator at logical index k with an offset off such that
\* 0 <= k + off < size, it[off], yields the element at logical index k + off of
\* the container: the element that *(it + off) and container[k + off] yield.
C21_IterSubscript ==
    \A off \in Offsets :
        LET o == it.mStorage
            s == store[o]
            k == it.mIndex
        IN (/\ s.alive /\ loop.pc = "idle"
            /\ k < s.mSize /\ 0 <= k + off /\ k + off < s.mSize) =>
               /\ IterSubscript(it, off, s) =
                     {[ok |-> TRUE, value |-> Subscript(s, k + off), ub |-> FALSE]}
               /\ IterSubscript(it, off, s) =
                     {[ok |-> TRUE, value |-> IterDeref(IterPlus(it, off), s), ub |-> FALSE]}
               /\ IterSubscript(it, off, s) =
                     {[ok |-> TRUE, value |-> ref[o][k + off + 1], ub |-> FALSE]}

\* C22: for two iterators i and j of the same container each of the six
\* comparisons is the comparison of their logical indices (the size_t values
\* they hold); ++ followed by -- and += n followed by -= n (and the reverse
\* orders) lead back to the same index, for the prefix forms and for the postfix
\* forms, which return the iterator as it was before the step; and the difference, although computed
\* in size_t, is exact as a signed value: (i + n) - i == n, (n + i) - i == n,
\* (i - n) - i == -n, i - j is the difference of the positions for positions
\* of the container, end() - begin() == size() and begin() - end() == -size().
C22_IteratorArithmetic ==
    [][LET o == last'.obj
           k == it.mIndex
           j == last'.pos
           n == last'.value
       IN /\ (last'.op = "it_compare" /\ ItCompare(o, j)) =>
                 /\ ("==" \in last'.value) <=> (k = j)
                 /\ ("!=" \in last'.value) <=> (k # j)
                 /\ ("<" \in last'.value) <=> (k < j)
                 /\ ("<=" \in last'.value) <=> (k <= j)
                 /\ (">" \in last'.value) <=> (k > j)
                 /\ (">=" \in last'.value) <=> (k >= j)
          /\ (last'.op = "it_inc" /\ ItIncr(o)) => IterDec(it') = it
          /\ (last'.op = "it_dec" /\ ItDecr(o)) => IterInc(it') = it
          /\ (last'.op = "it_post_inc" /\ ItPostIncr(o)) =>
                 /\ IterPostDec(it').self = it
                 /\ IterAt(o, j) = it
          /\ (last'.op = "it_post_dec" /\ ItPostDecr(o)) =>
                 /\ IterPostInc(it').self = it
                 /\ IterAt(o, j) = it
          /\ (last'.op = "it_add_assign" /\ ItAddAssign(o, n)) =>
                 IterSubAssign(it', n) = it
          /\ (last'.op = "it_sub_assign" /\ ItSubAssign(o, n)) =>
                 IterAddAssign(it', n) = it
          /\ (last'.op = "it_plus" /\ ItPlus(o, n)) => IterDiff(IterAt(o, j), it) = n
          /\ (last'.op = "it_plus_left" /\ ItPlusLeft(o, n)) =>
                 IterDiff(IterAt(o, j), it) = n
          /\ (last'.op = "it_minus" /\ ItMinus(o, n)) =>
                 IterDiff(IterAt(o, j), it) = 0 - n
          /\ (last'.op = "it_diff" /\ ItDiff(o, j)) =>
                 /\ (k <= MaxSize /\ j <= MaxSize) => n = k - j
                 /\ (it = end(o, store[o]) /\ IterAt(o, j) = begin(o)) =>
                        n = size(store[o])
                 /\ (it = begin(o) /\ IterAt(o, j) = end(o, store[o])) =>
                        n = 0 - size(store[o])]_vars

\* begin() - end() computed on a container of MaxSize elements: a negative value
C22_Witness ==
    /\ last.op = "it_diff" /\ it = begin("a")
    /\ last.pos = store["a"].mSize /\ store["a"].mSize = MaxSize
    /\ last.value = 0 - MaxSize

====
